---- MODULE Spec2Model ----
(***************************************************************************)
(* Gravitational-lensing simulator (lsne5.py): the session state, the      *)
(* sidebar handlers, the main simulation loop and calculate_magnification. *)
(*                                                                         *)
(* The script runs top to bottom once per UI event.  A UI event that       *)
(* arrives while the loop is executing aborts the script run at the next   *)
(* rendering call (lines 276-306 and 312), i.e. after the lens advance and *)
(* the sample append of the current iteration and before its time_step     *)
(* increment, and the script is then run again from the top.               *)
(*                                                                         *)
(* Python floats are modelled as decimal floating-point numbers <<m, e>>   *)
(* = m * 10^e with a four-digit mantissa (1000 <= |m| <= 9999, or m = 0),  *)
(* every operation truncating its result to four digits.                   *)
(***************************************************************************)
EXTENDS Integers, Sequences, FiniteSets

VARIABLES is_running, time_step, lens_pos_x, light_curve_data,
          cfg, pause_drawn, pc, event, events, steps, discarded,
          mag_in, mag_out

session == <<is_running, time_step, lens_pos_x, light_curve_data>>
engine  == <<is_running, time_step, lens_pos_x, light_curve_data,
             cfg, pause_drawn, pc, event, events, steps, discarded>>
mag     == <<mag_in, mag_out>>
vars    == <<is_running, time_step, lens_pos_x, light_curve_data,
             cfg, pause_drawn, pc, event, events, steps, discarded,
             mag_in, mag_out>>

---------------------------------------------------------------------------
(* Floating point.                                                         *)

Zero == <<0, 0>>
NaN  == <<0, 1>>
Inf  == <<0, 2>>

IsNaN(a)    == a = NaN
IsInf(a)    == a = Inf
IsFinite(a) == a # NaN /\ a # Inf

Abs(n) == IF n < 0 THEN -n ELSE n

\* integer division truncating toward zero, d > 0
TDiv(n, d) == IF n >= 0 THEN n \div d ELSE -((-n) \div d)

Pow10(k) == <<1, 10, 100, 1000, 10000, 100000>>[k + 1]

RECURSIVE Norm(_, _)
Norm(m, e) ==
    IF m = 0 THEN Zero
    ELSE IF Abs(m) >= 10000 THEN Norm(TDiv(m, 10), e + 1)
    ELSE IF Abs(m) < 1000 THEN Norm(m * 10, e - 1)
    ELSE <<m, e>>

FromInt(n) == Norm(n, 0)
\* the decimal literal n * 10^e
Dec(n, e) == Norm(n, e)

FNeg(a) == IF IsFinite(a) THEN <<-a[1], a[2]>> ELSE a

FAbs(a) == IF IsFinite(a) THEN <<Abs(a[1]), a[2]>> ELSE a

FAdd(a, b) ==
    IF IsNaN(a) \/ IsNaN(b) THEN NaN
    ELSE IF IsInf(a) \/ IsInf(b) THEN Inf
    ELSE IF a = Zero THEN b
    ELSE IF b = Zero THEN a
    ELSE LET hi == IF a[2] >= b[2] THEN a ELSE b
             lo == IF a[2] >= b[2] THEN b ELSE a
             d  == hi[2] - lo[2]
         IN  IF d > 5 THEN hi
             ELSE Norm(hi[1] * Pow10(d) + lo[1], lo[2])

FSub(a, b) == FAdd(a, FNeg(b))

FMul(a, b) ==
    IF IsNaN(a) \/ IsNaN(b) THEN NaN
    ELSE IF IsInf(a) \/ IsInf(b)
         THEN (IF a = Zero \/ b = Zero THEN NaN ELSE Inf)
    ELSE Norm(a[1] * b[1], a[2] + b[2])

FDiv(a, b) ==
    IF IsNaN(a) \/ IsNaN(b) THEN NaN
    ELSE IF IsInf(a) THEN (IF IsInf(b) THEN NaN ELSE Inf)
    ELSE IF IsInf(b) THEN Zero
    ELSE IF b = Zero THEN (IF a = Zero THEN NaN ELSE Inf)
    ELSE LET q == (Abs(a[1]) * 100000) \div Abs(b[1])
             s == IF (a[1] < 0) = (b[1] < 0) THEN 1 ELSE -1
         IN  Norm(s * q, a[2] - b[2] - 5)

\* largest r in lo..hi with r * r <= n  (lo * lo <= n < (hi + 1) * (hi + 1))
RECURSIVE ISqrtIn(_, _, _)
ISqrtIn(n, lo, hi) ==
    IF lo >= hi THEN lo
    ELSE LET mid == (lo + hi + 1) \div 2
         IN  IF mid * mid <= n THEN ISqrtIn(n, mid, hi)
             ELSE ISqrtIn(n, lo, mid - 1)

ISqrt(n) == ISqrtIn(n, 0, 31622)

FSqrt(a) ==
    IF IsNaN(a) THEN NaN
    ELSE IF IsInf(a) THEN Inf
    ELSE IF a = Zero THEN Zero
    ELSE IF a[1] < 0 THEN NaN
    ELSE IF a[2] % 2 = 0
         THEN Norm(ISqrt(a[1] * 10000), (a[2] - 4) \div 2)
         ELSE Norm(ISqrt(a[1] * 100000), (a[2] - 5) \div 2)

FSq(a) == FMul(a, a)

\* comparisons: anything compared with NaN is false
FLeq(a, b) ==
    IF IsNaN(a) \/ IsNaN(b) THEN FALSE
    ELSE IF IsInf(a) THEN IsInf(b)
    ELSE IF IsInf(b) THEN TRUE
    ELSE FSub(a, b)[1] <= 0

FLt(a, b) ==
    IF IsNaN(a) \/ IsNaN(b) THEN FALSE
    ELSE IF IsInf(a) THEN FALSE
    ELSE IF IsInf(b) THEN TRUE
    ELSE FSub(a, b)[1] < 0

FGt(a, b) == FLt(b, a)

\* floor of a finite a >= 0, as an integer (a < 10^5)
FFloor(a) ==
    IF a = Zero THEN 0
    ELSE IF a[2] >= 0 THEN a[1] * Pow10(a[2])
    ELSE IF a[2] < -5 THEN 0
    ELSE a[1] \div Pow10(-a[2])

\* a % b for finite a >= 0, b > 0
FMod(a, b) == FSub(a, FMul(FromInt(FFloor(FDiv(a, b))), b))

Two  == FromInt(2)
Four == FromInt(4)
One  == FromInt(1)
Pi   == Dec(3142, -3)

\* cos on [0, pi/2] by its Taylor series
CosSeries(x) ==
    LET x2 == FSq(x)
        x4 == FSq(x2)
        x6 == FMul(x4, x2)
        x8 == FSq(x4)
    IN  FAdd(FSub(FAdd(FSub(One, FDiv(x2, Two)),
                       FDiv(x4, FromInt(24))),
                  FDiv(x6, FromInt(720))),
             FDiv(x8, FromInt(40320)))

\* np.cos for 0 <= x < 2 pi
FCos(x) ==
    LET y == IF FGt(x, Pi) THEN FAbs(FSub(FMul(Two, Pi), x)) ELSE x
    IN  IF FGt(y, FDiv(Pi, Two))
        THEN FNeg(CosSeries(FAbs(FSub(Pi, y))))
        ELSE CosSeries(y)

---------------------------------------------------------------------------
(* calculate_magnification (lines 79-104).                                 *)

epsilon == Dec(1, -9)

Rho(source_radius, einstein_radius) ==
    FDiv(source_radius, FAdd(einstein_radius, epsilon))

\* the point-lens formula (u^2 + 2) / (u * sqrt(u^2 + 4))
PointLens(u) ==
    FDiv(FAdd(FSq(u), Two), FMul(u, FSqrt(FAdd(FSq(u), Four))))

\* line 97: (u^2 + 2) / ((u + epsilon) * sqrt(u^2 + 4))
PointLensEps(u) ==
    FDiv(FAdd(FSq(u), Two),
         FMul(FAdd(u, epsilon), FSqrt(FAdd(FSq(u), Four))))

\* faulty variant: the transit branch evaluates the formula at u, not at rho
calculate_magnification_unflattened(u, source_radius, einstein_radius) ==
    LET rho == Rho(source_radius, einstein_radius)
    IN  IF FLeq(u, rho)
        THEN PointLensEps(u)
        ELSE PointLens(u)

calculate_magnification(u, source_radius, einstein_radius) ==
    LET rho == Rho(source_radius, einstein_radius)
    IN  IF FLeq(u, rho)
        THEN IF FLt(rho, epsilon)
             THEN PointLensEps(u)
             ELSE PointLens(rho)
        ELSE PointLens(u)

---------------------------------------------------------------------------
(* Constants (lines 61, 63) and the sidebar (lines 115-157).                *)

SIM_WIDTH  == 400
TIME_STEPS == 400

\* bounds of the model: UI events per behaviour, and the last time_step at
\* which a UI event may abort a running loop iteration (the iterations that
\* end a run may be aborted too)
MaxEvents        == 2
MaxInterruptStep == 2

\* slider values the UI events choose from (each within its slider's range)
LensMassValues     == {Dec(10, -1), Dec(50, -1)}
PlanetMassValues   == {Dec(1, -2), Dec(10, -2)}
SourceRadiusValues == {5, 8}

\* the widgets' default values (lines 121-142)
DefaultWidgets ==
    [lens_mass          |-> Dec(50, -1),
     lens_dist_factor   |-> Dec(5, -1),
     has_planet         |-> TRUE,
     planet_mass        |-> Dec(10, -2),
     planet_orbit_dist  |-> 40,
     planet_orbit_speed |-> Dec(20, -1),
     source_radius      |-> 8]

\* lines 127-138: the planet sliders exist only while the checkbox is set
\* (a slider that reappears starts from its default); otherwise the planet
\* values are zeroed
Sidebar(w) ==
    IF w.has_planet THEN w
    ELSE [w EXCEPT !.planet_mass = Zero,
                   !.planet_orbit_dist = 0,
                   !.planet_orbit_speed = Zero]

\* the widget states one user interaction with a slider or the checkbox
\* leads to from the bound configuration c
WidgetChanges(c) ==
    {[c EXCEPT !.lens_mass = v] : v \in LensMassValues \ {c.lens_mass}}
    \cup {[c EXCEPT !.source_radius = v] :
              v \in SourceRadiusValues \ {c.source_radius}}
    \cup (IF c.has_planet
          THEN {[c EXCEPT !.planet_mass = v] :
                    v \in PlanetMassValues \ {c.planet_mass}}
               \cup {[c EXCEPT !.has_planet = FALSE]}
          ELSE {[c EXCEPT !.has_planet = TRUE,
                          !.planet_mass = DefaultWidgets.planet_mass,
                          !.planet_orbit_dist = DefaultWidgets.planet_orbit_dist,
                          !.planet_orbit_speed =
                              DefaultWidgets.planet_orbit_speed]})

---------------------------------------------------------------------------
(* One loop iteration's physics (lines 186-214).  lens_pos_y and           *)
(* planet_pos_y are drawn but enter no stored value and are left out.      *)

source_pos_x == Zero

einstein_radius(mass) == FMul(FromInt(15), FSqrt(mass))

\* lines 191-192, x the advanced lens_pos_x, t the time_step
planet_pos_x(x, t, c) ==
    LET angle == FMod(FMul(FMul(FromInt(t), c.planet_orbit_speed), Dec(1, -1)),
                      FMul(Two, Pi))
    IN  FAdd(FromInt(x), FMul(FromInt(c.planet_orbit_dist), FCos(angle)))

\* lines 200-203
magnification_star(x, c) ==
    LET einstein_radius_star  == einstein_radius(c.lens_mass)
        impact_parameter_star == FAbs(FSub(FromInt(x), source_pos_x))
        u_star == FDiv(impact_parameter_star, einstein_radius_star)
    IN  calculate_magnification(u_star, FromInt(c.source_radius),
                                einstein_radius_star)

\* lines 207-211
planet_term(x, t, c) ==
    LET einstein_radius_planet  == einstein_radius(c.planet_mass)
        impact_parameter_planet ==
            FAbs(FSub(planet_pos_x(x, t, c), source_pos_x))
        u_planet == FDiv(impact_parameter_planet, einstein_radius_planet)
    IN  FSub(calculate_magnification(u_planet, FromInt(c.source_radius),
                                     einstein_radius_planet), One)

\* faulty variant: the planet term is computed whether or not there is a planet
magnification_planet_unguarded(x, t, c) == planet_term(x, t, c)

\* lines 205-206
magnification_planet(x, t, c) ==
    IF c.has_planet THEN planet_term(x, t, c) ELSE Zero

\* line 214
total_magnification(x, t, c) ==
    FAdd(magnification_star(x, c), magnification_planet(x, t, c))

\* line 217: the row appended for the iteration entered at time_step t
new_data(x, t, c) ==
    [Time |-> t, Magnification |-> total_magnification(x, t, c)]

---------------------------------------------------------------------------
(* Session state (lines 68-75) and reset_simulation (lines 106-111).       *)

InitialLensPosX == -(SIM_WIDTH \div 2)

\* faulty variant: the reset forgets to clear the light curve
reset_simulation_keeps_curve ==
    /\ is_running' = FALSE
    /\ time_step' = 0
    /\ light_curve_data' = light_curve_data
    /\ lens_pos_x' = InitialLensPosX

\* faulty variant: the reset forgets to move the lens back
reset_simulation_keeps_lens ==
    /\ is_running' = FALSE
    /\ time_step' = 0
    /\ light_curve_data' = <<>>
    /\ lens_pos_x' = lens_pos_x

reset_simulation ==
    /\ is_running' = FALSE
    /\ time_step' = 0
    /\ light_curve_data' = <<>>
    /\ lens_pos_x' = InitialLensPosX

EngineInit ==
    /\ is_running = FALSE
    /\ time_step = 0
    /\ light_curve_data = <<>>
    /\ lens_pos_x = InitialLensPosX
    /\ cfg = Sidebar(DefaultWidgets)
    /\ pause_drawn = FALSE
    /\ pc = "idle"
    /\ event = "load"
    /\ events = 0
    /\ steps = 0
    /\ discarded = 0

---------------------------------------------------------------------------
(* The script run a UI event triggers: callbacks, then lines 115-157, up   *)
(* to the loop head.  It starts from pc = "idle" (the previous run has     *)
(* ended) or from pc = "render" (the previous run is aborted at a          *)
(* rendering call of the iteration in progress).                           *)

MayRerun ==
    /\ events < MaxEvents
    /\ \/ pc = "idle"
       \/ pc = "render" /\ time_step <= MaxInterruptStep
       \/ pc = "render" /\ lens_pos_x > SIM_WIDTH \div 2

\* the run's bookkeeping: which event it serves, how many were served
\* (steps counts the loop iterations entered, and discarded the samples the
\* last reset threw away; neither is read by the program)
Served(kind) ==
    /\ event' = kind
    /\ events' = events + 1
    /\ pc' = "loop"

\* lines 148-149
Start ==
    /\ MayRerun
    /\ UNCHANGED mag
    /\ is_running' = TRUE
    /\ pause_drawn' = TRUE
    /\ UNCHANGED <<time_step, lens_pos_x, light_curve_data, cfg, steps,
                   discarded>>
    /\ Served("start")

\* lines 155-157: the button can be pressed if the last run drew it, and
\* the run it triggers draws it, and takes its answer, only while is_running
Pause ==
    /\ MayRerun
    /\ UNCHANGED mag
    /\ pause_drawn
    /\ pause_drawn' = is_running
    /\ is_running' = (IF is_running THEN FALSE ELSE is_running)
    /\ UNCHANGED <<time_step, lens_pos_x, light_curve_data, cfg, steps,
                   discarded>>
    /\ Served("pause")

\* faulty variant: the reset also puts the widgets back to their defaults
ResetToDefaults ==
    /\ MayRerun
    /\ UNCHANGED mag
    /\ reset_simulation
    /\ pause_drawn' = FALSE
    /\ steps' = 0
    /\ discarded' = Len(light_curve_data)
    /\ cfg' = Sidebar(DefaultWidgets)
    /\ Served("reset")

\* line 151: on_click runs reset_simulation before the script body
Reset ==
    /\ MayRerun
    /\ UNCHANGED mag
    /\ reset_simulation
    /\ pause_drawn' = FALSE
    /\ steps' = 0
    /\ discarded' = Len(light_curve_data)
    /\ UNCHANGED cfg
    /\ Served("reset")

\* lines 121-142: a slider or the checkbox was changed
ParamChange ==
    /\ MayRerun
    /\ UNCHANGED mag
    /\ \E w \in WidgetChanges(cfg) : cfg' = Sidebar(w)
    /\ pause_drawn' = is_running
    /\ UNCHANGED <<is_running, time_step, lens_pos_x, light_curve_data, steps,
                   discarded>>
    /\ Served("param")

---------------------------------------------------------------------------
(* The main simulation loop (lines 179-315).                               *)

\* faulty variant: the counter is incremented at the top of the iteration
StepBeginCountsFirst ==
    /\ UNCHANGED mag
    /\ pc = "loop"
    /\ is_running
    /\ lens_pos_x' = lens_pos_x + SIM_WIDTH \div TIME_STEPS
    /\ time_step' = time_step + 1
    /\ light_curve_data' =
           Append(light_curve_data, new_data(lens_pos_x', time_step', cfg))
    /\ steps' = steps + 1
    /\ pc' = "render"
    /\ UNCHANGED <<is_running, cfg, pause_drawn, event, events, discarded>>

\* lines 179-218: the loop test, the lens advance and the sample append
StepBegin ==
    /\ UNCHANGED mag
    /\ pc = "loop"
    /\ is_running
    /\ lens_pos_x' = lens_pos_x + SIM_WIDTH \div TIME_STEPS
    /\ light_curve_data' =
           Append(light_curve_data, new_data(lens_pos_x', time_step, cfg))
    /\ steps' = steps + 1
    /\ pc' = "render"
    /\ UNCHANGED <<is_running, time_step, cfg, pause_drawn, event, events,
                   discarded>>

\* line 310
Terminal(x) == x > SIM_WIDTH \div 2

\* lines 221-315: the rendering calls return, then the loop control
StepEnd ==
    /\ UNCHANGED mag
    /\ pc = "render"
    /\ time_step' = time_step + 1
    /\ is_running' = (IF Terminal(lens_pos_x) THEN FALSE ELSE is_running)
    /\ pc' = "loop"
    /\ UNCHANGED <<lens_pos_x, light_curve_data, cfg, pause_drawn, event,
                   events, steps, discarded>>

\* lines 179 and 318-322: the loop test fails and the script run ends
LoopExit ==
    /\ UNCHANGED mag
    /\ pc = "loop"
    /\ ~is_running
    /\ pc' = "idle"
    /\ UNCHANGED <<session, cfg, pause_drawn, event, events, steps, discarded>>

Init ==
    /\ EngineInit
    /\ mag_in = <<Zero, Zero, Zero>>
    /\ mag_out = <<>>

Next ==
    \/ Start
    \/ Pause
    \/ Reset
    \/ ParamChange
    \/ StepBegin
    \/ StepEnd
    \/ LoopExit

Spec == Init /\ [][Next]_vars

---------------------------------------------------------------------------
(* calculate_magnification on its own: the inputs are drawn from bounded   *)
(* sets and the function is applied to them.                               *)

MaxUTenths        == 12
MaxSourceRadius   == 3
MaxEinsteinRadius == 3

MagInputs ==
    {<<Dec(k, -1), FromInt(r), FromInt(e)>> :
        k \in 0..MaxUTenths, r \in 0..MaxSourceRadius,
        e \in 0..MaxEinsteinRadius}

MagInit ==
    /\ EngineInit
    /\ mag_in \in MagInputs
    /\ mag_out = <<>>

MagCall ==
    /\ mag_out = <<>>
    /\ mag_out' = <<calculate_magnification(mag_in[1], mag_in[2], mag_in[3])>>
    /\ UNCHANGED <<mag_in, engine>>

MagNew ==
    /\ mag_out # <<>>
    /\ mag_in' \in MagInputs
    /\ mag_out' = <<>>
    /\ UNCHANGED engine

MagNext == MagCall \/ MagNew

MagSpec == MagInit /\ [][MagNext]_vars

---------------------------------------------------------------------------
(* Properties.                                                             *)

LastSample == light_curve_data[Len(light_curve_data)]

\* a script run is starting: a UI event is being served
EventServed == events' = events + 1

C2_IdleAfterTotalSteps ==
    (pc = "loop" /\ time_step = TIME_STEPS /\ steps = TIME_STEPS) =>
        (lens_pos_x = SIM_WIDTH \div 2 /\ ~is_running)

\* C3: consecutive samples of the light curve have strictly increasing
\* time stamps.
C3_StrictlyIncreasingTime ==
    \A i \in 1..(Len(light_curve_data) - 1) :
        light_curve_data[i].Time < light_curve_data[i + 1].Time

\* C4: the light curve holds one sample per loop iteration entered since
\* the last reset, and serving a start or a pause event leaves it as it is.
C4_LengthIsStepCount ==
    /\ [](Len(light_curve_data) = steps)
    /\ [][(EventServed /\ event' \in {"start", "pause"}) =>
              light_curve_data' = light_curve_data]_vars

C4_Witness ==
    /\ event = "pause"
    /\ ~is_running
    /\ Len(light_curve_data) >= 2
    /\ steps = Len(light_curve_data)

\* C5: a script run that serves a reset holds the freshly initialised
\* session state (time_step 0, lens at -simWidth/2, empty light curve, not
\* running) and enters no loop iteration; is_running is raised by nothing
\* but a start.
C5_ResetRestoresInitial ==
    /\ [](event = "reset" =>
            /\ time_step = 0
            /\ lens_pos_x = -(SIM_WIDTH \div 2)
            /\ light_curve_data = <<>>
            /\ ~is_running
            /\ pc # "render")
    /\ [][(~is_running /\ is_running') => event' = "start"]_vars

\* a reset served after the run reached its terminal condition
C5_Witness ==
    /\ event = "reset"
    /\ discarded > TIME_STEPS
    /\ pc = "idle"

\* C6, as claimed: the configuration cannot change while time_step > 0.
C6_ConfigFixedWhileStepped ==
    [][time_step > 0 => cfg' = cfg]_vars

\* C6, amended: the configuration is constant within a script run; it
\* changes only when a parameter-change event is served, and never by a
\* start, a pause, a reset or a loop iteration.
C6_ConfigChangesOnlyByParamEvent ==
    [][cfg' # cfg => (EventServed /\ event' = "param")]_vars

\* a light curve whose first sample was computed under the default
\* configuration and whose last sample was computed under another one
C6_Witness ==
    /\ Len(light_curve_data) >= 2
    /\ pc = "render"
    /\ time_step > 0
    /\ cfg # Sidebar(DefaultWidgets)
    /\ light_curve_data[1].Magnification =
           total_magnification(InitialLensPosX + 1, 0, Sidebar(DefaultWidgets))
    /\ LastSample.Magnification =
           total_magnification(lens_pos_x, time_step, cfg)
    /\ LastSample.Magnification #
           total_magnification(lens_pos_x, time_step, Sidebar(DefaultWidgets))

\* C7: no bound configuration has a zero Einstein radius where the loop
\* divides by it, and every sample of the light curve is finite.
C7_NoDivisionByZero ==
    /\ einstein_radius(cfg.lens_mass) # Zero
    /\ cfg.has_planet => einstein_radius(cfg.planet_mass) # Zero
    /\ \A i \in 1..Len(light_curve_data) :
           IsFinite(light_curve_data[i].Magnification)

\* a sample computed with a planet of the smallest mass the slider allows
C7_Witness ==
    /\ pc = "render"
    /\ cfg.has_planet
    /\ cfg.planet_mass = Dec(1, -2)
    /\ Len(light_curve_data) > 0

\* C8: for rho >= epsilon and 0 <= u <= rho the result is the point-lens
\* formula at rho, whatever u is: it is the result for u = 0, and finite.
C8_FlatTop ==
    LET u   == mag_in[1]
        rho == Rho(mag_in[2], mag_in[3])
    IN  (mag_out # <<>> /\ ~FLt(rho, epsilon) /\ FLeq(u, rho)) =>
            /\ mag_out[1] = FDiv(FAdd(FSq(rho), Two),
                                 FMul(rho, FSqrt(FAdd(FSq(rho), Four))))
            /\ mag_out[1] = calculate_magnification(Zero, mag_in[2], mag_in[3])
            /\ IsFinite(mag_out[1])

\* the function applied at the edge of the source disk, u = rho > 0
C8_Witness ==
    /\ mag_out # <<>>
    /\ mag_in[1] = Rho(mag_in[2], mag_in[3])
    /\ FGt(mag_in[1], Zero)
    /\ ~FLt(Rho(mag_in[2], mag_in[3]), epsilon)

\* C9, as claimed: the first sample after a reset has time stamp 1, and
\* every sample (t, m) has m computed with the lens at -simWidth/2 + t.
C9_SampleTimeAfterIncrement ==
    Len(light_curve_data) > 0 =>
        /\ light_curve_data[1].Time = 1
        /\ pc = "render" =>
               lens_pos_x = -(SIM_WIDTH \div 2)
                            + LastSample.Time * (SIM_WIDTH \div TIME_STEPS)

\* C9, amended: an iteration advances the lens, appends its sample and only
\* then increments time_step: the sample records the time_step before the
\* increment and is computed with the advanced lens position, and the first
\* sample after a reset has time stamp 0.
C9_SampleTimeBeforeIncrement ==
    Len(light_curve_data) > 0 =>
        /\ light_curve_data[1].Time = 0
        /\ pc = "render" =>
               /\ LastSample.Time = time_step
               /\ LastSample.Magnification =
                      total_magnification(lens_pos_x, time_step, cfg)

C9_Witness ==
    /\ pc = "render"
    /\ Len(light_curve_data) >= 2
    /\ LastSample.Time = time_step
    /\ time_step = Len(light_curve_data) - 1

\* C10: outside a loop iteration in progress no step is partially applied:
\* every iteration entered since the last reset has also incremented
\* time_step.
C10_StepAtomic ==
    pc # "render" =>
        (Len(light_curve_data) = time_step /\ steps = time_step)

====
